---- MODULE Spec2Model ----
(***************************************************************************)
(* Face detection post-processing of inaFaceAnalyzer / inaFaceGender:      *)
(* FaceDetector.__call__ (padding, size filter, de-padding), the concrete  *)
(* detectors' _call_imp, the face selection policies, the dlib based       *)
(* intersection_over_union, video_iterator and Dlib68FaceAlignment.        *)
(*                                                                         *)
(* Numbers.  The code works on floats.  The model keeps every fractional   *)
(* quantity as an integer count of 1/Q: a Rect coordinate c stands for     *)
(* c/Q pixels, a confidence k for k/Q, a percentage p for p/Q.  Frame      *)
(* shapes, padding offsets and min_size_px are whole pixels, as in the     *)
(* code.  Halves (centers, squares) are kept by doubling, and ratios (IoU) *)
(* as numerator/denominator pairs compared by cross-multiplication.        *)
(***************************************************************************)
EXTENDS Integers, Sequences, FiniteSets, TLC

VARIABLES
    det,      \* the detector object
    shape,    \* the frame at hand: its shape <<height, width>>
    infer,    \* what the external inference answers on that frame
    given,    \* the list handed to PrecomputedDetector's constructor (the caller's)
    ncalls,   \* detect calls made so far on a PrecomputedDetector
    args,     \* the other arguments of the call at hand
    call,     \* the last call: what it did and what it returned
    vid,      \* video_iterator: the capture handle and the generator
    handed    \* the frames handed so far to a LibFaceDetection's _call_imp

vars == <<det, shape, infer, given, ncalls, args, call, vid, handed>>

\* Resolution of the fractional quantities (1/Q).
Q == 4

\* Largest frame side, in pixels.
MaxDim == 2

\* Longest list of raw candidates one inference hands back.
MaxDet == 2

\* Longest list handed to PrecomputedDetector.
MaxQueue == 2

\* Calls made beyond the end of a PrecomputedDetector's queue.
ExtraCalls == 2

\* Longest video, in frames, and largest sub-sampling stride.
MaxFrames == 3
MaxSub == 2

Min(a, b) == IF a <= b THEN a ELSE b
Max(a, b) == IF a >= b THEN a ELSE b

\* [f(e) for e in s]
MapSeq(s, f(_)) == [i \in DOMAIN s |-> f(s[i])]

\* Sequences over S of length 0..n.
SeqUpTo(S, n) == UNION {[1..k -> S] : k \in 0..n}

(***************************************************************************)
(* Rect (inaFaceAnalyzer/rect.py is not part of the sources at hand; these *)
(* follow the data model of the specification): <<x1, y1, x2, y2>>.        *)
(***************************************************************************)
RectW(r) == r[3] - r[1]
RectH(r) == r[4] - r[2]

\* Rect.max_dim_len: the longer side
max_dim_len(r) == Max(RectW(r), RectH(r))

\* Rect.area
area(r) == RectW(r) * RectH(r)

\* Rect.transpose(xoffset, yoffset): shift
transpose(r, dx, dy) == <<r[1] + dx, r[2] + dy, r[3] + dx, r[4] + dy>>

\* Rect.mult(x, y): scale normalized coordinates to pixels
mult(r, x, y) == <<r[1] * x, r[2] * y, r[3] * x, r[4] * y>>

\* Rect.center, doubled: <<x1 + x2, y1 + y2>> is twice the center point
center2(r) == <<r[1] + r[3], r[2] + r[4]>>

\* point in Rect, the point given doubled
contains2(r, p2) ==
    /\ 2 * r[1] <= p2[1] /\ p2[1] <= 2 * r[3]
    /\ 2 * r[2] <= p2[2] /\ p2[2] <= 2 * r[4]

\* Rect.square, doubled: the smallest square around the same center
square2(r) ==
    LET c == center2(r)
        m == max_dim_len(r)
    IN  <<c[1] - m, c[2] - m, c[1] + m, c[2] + m>>

\* a Rect with every coordinate doubled
double(r) == <<2 * r[1], 2 * r[2], 2 * r[3], 2 * r[4]>>

\* Rect.intersect: the common part, the empty Rect when there is none
intersect(a, b) ==
    LET x1 == Max(a[1], b[1])
        y1 == Max(a[2], b[2])
        x2 == Min(a[3], b[3])
        y2 == Min(a[4], b[4])
    IN  IF x1 >= x2 \/ y1 >= y2 THEN <<0, 0, 0, 0>> ELSE <<x1, y1, x2, y2>>

\* Rect.iou as the pair <<intersection, union>> (the ratio inter / union)
iou(a, b) ==
    LET inter == area(intersect(a, b))
    IN  <<inter, area(a) + area(b) - inter>>

(***************************************************************************)
(* Detection, DetectionEyes and the confidence values                      *)
(***************************************************************************)
Conf(k) == [tag |-> "float", v |-> k]
NoneConf == [tag |-> "None", v |-> 0]
NanConf == [tag |-> "nan", v |-> 0]

Detection(bbox, detect_conf) ==
    [type |-> "Detection", bbox |-> bbox, detect_conf |-> detect_conf, eyes |-> <<>>]

DetectionEyes(bbox, detect_conf, eyes) ==
    [type |-> "DetectionEyes", bbox |-> bbox, detect_conf |-> detect_conf, eyes |-> eyes]

\* a plain (bbox, conf) tuple, which has no .bbox attribute
PlainTuple(bbox, detect_conf) ==
    [type |-> "tuple", bbox |-> bbox, detect_conf |-> detect_conf, eyes |-> <<>>]

\* e._replace(bbox = b)
ReplaceBbox(e, b) == [e EXCEPT !.bbox = b]

(***************************************************************************)
(* Frames: only the shape <<height, width>> matters to this code.          *)
(***************************************************************************)
Frames == (1..MaxDim) \X (1..MaxDim)

FrameH(frame) == frame[1]
FrameW(frame) == frame[2]

(***************************************************************************)
(* Detector objects.  hasattrs tells whether FaceDetector.__init__ ran and *)
(* set minconf, min_size_px, min_size_prct and padd_prct on the object.    *)
(* dprior is LibFaceDetection's dictionary of PriorBox objects, a function *)
(* from the keys <<w, h>>; npriorbox counts the PriorBox objects the       *)
(* detector has constructed, which tells the objects apart.                *)
(***************************************************************************)
\* {}, the empty dictionary
EmptyDict == [k \in {} |-> 0]

FaceDetectorInit(kind, minconf, min_size_px, min_size_prct, padd_prct, lbbox) ==
    [kind |-> kind, hasattrs |-> TRUE, minconf |-> minconf,
     min_size_px |-> min_size_px, min_size_prct |-> min_size_prct,
     padd_prct |-> padd_prct, lbbox |-> lbbox, dprior |-> EmptyDict,
     npriorbox |-> 0]

\* OcvCnnFacedetector.__init__
OcvCnnFacedetector(minconf, min_size_px, min_size_prct, padd_prct) ==
    FaceDetectorInit("OcvCnn", minconf, min_size_px, min_size_prct, padd_prct, <<>>)

\* LibFaceDetection.__init__
LibFaceDetection(minconf, min_size_px, min_size_prct, padd_prct) ==
    FaceDetectorInit("LibFace", minconf, min_size_px, min_size_prct, padd_prct, <<>>)

\* PrecomputedDetector.__init__: super().__init__(0, 0, 0, 0), lbbox.copy()
PrecomputedDetector(lbbox) ==
    FaceDetectorInit("Precomputed", 0, 0, 0, 0, lbbox)

\* IdentityFaceDetector.__init__: pass (FaceDetector.__init__ is not called)
IdentityFaceDetector ==
    [kind |-> "Identity", hasattrs |-> FALSE, minconf |-> 0,
     min_size_px |-> 0, min_size_prct |-> 0,
     padd_prct |-> 0, lbbox |-> <<>>, dprior |-> EmptyDict,
     npriorbox |-> 0]

(***************************************************************************)
(* _blackpadd(frame, paddpercent): the padded shape and the two offsets    *)
(***************************************************************************)
\* int(n * paddpercent) for n >= 0 and paddpercent = p/Q >= 0
IntOfProduct(n, p) == (n * p) \div Q

BlackpaddXoffset(frame, paddpercent) == IntOfProduct(FrameW(frame), paddpercent)

BlackpaddYoffset(frame, paddpercent) == IntOfProduct(FrameH(frame), paddpercent)

_blackpadd(frame, paddpercent) ==
    LET xoffset == BlackpaddXoffset(frame, paddpercent)
        yoffset == BlackpaddYoffset(frame, paddpercent)
    IN  [ret |-> <<FrameH(frame) + 2 * yoffset, FrameW(frame) + 2 * xoffset>>,
         yoffset |-> yoffset, xoffset |-> xoffset]

(***************************************************************************)
(* OcvCnnFacedetector._call_imp: decoding of the network's candidates      *)
(* [conf, box], box in normalized coordinates.                             *)
(***************************************************************************)
\* assert(np.all(-np.sort(-detections[:,:,:,2]) == detections[:,:,:,2]))
SortedByConf(detections) ==
    \A i \in 1..(Len(detections) - 1) : detections[i].conf >= detections[i + 1].conf

\* bbox.x1 >= 1 or bbox.y1 >= 1 or bbox.x2 <= 0 or bbox.y2 <= 0
NoisyCoordinates(bbox) == bbox[1] >= Q \/ bbox[2] >= Q \/ bbox[3] <= 0 \/ bbox[4] <= 0

\* bbox.x1 >= bbox.x2 or bbox.y1 >= bbox.y2
Degenerate(bbox) == bbox[1] >= bbox[3] \/ bbox[2] >= bbox[4]

\* (the scan stopping at a noisy box instead of skipping it)
RECURSIVE OcvScanBreak(_, _, _, _, _)
OcvScanBreak(detections, i, w, h, minconf) ==
    IF i > Len(detections) THEN <<>>
    ELSE LET confidence == detections[i].conf
             bbox == detections[i].box
         IN  IF confidence < minconf THEN <<>>
             ELSE IF NoisyCoordinates(bbox) THEN <<>>
             ELSE IF Degenerate(bbox) THEN OcvScanBreak(detections, i + 1, w, h, minconf)
             ELSE <<Detection(mult(bbox, w, h), Conf(confidence))>>
                      \o OcvScanBreak(detections, i + 1, w, h, minconf)

\* the for loop from candidate i on: break below minconf, continue on a
\* noisy or degenerate box, append the scaled box otherwise
RECURSIVE OcvScan(_, _, _, _, _)
OcvScan(detections, i, w, h, minconf) ==
    IF i > Len(detections) THEN <<>>
    ELSE LET confidence == detections[i].conf
             bbox == detections[i].box
         IN  IF confidence < minconf THEN <<>>
             ELSE IF NoisyCoordinates(bbox) THEN OcvScan(detections, i + 1, w, h, minconf)
             ELSE IF Degenerate(bbox) THEN OcvScan(detections, i + 1, w, h, minconf)
             ELSE <<Detection(mult(bbox, w, h), Conf(confidence))>>
                      \o OcvScan(detections, i + 1, w, h, minconf)

OcvCallImp(d, frame, detections) ==
    IF ~SortedByConf(detections)
    THEN [ret |-> <<>>, err |-> "AssertionError", det |-> d]
    ELSE [ret |-> OcvScan(detections, 1, FrameW(frame), FrameH(frame), d.minconf),
          err |-> "", det |-> d]

(***************************************************************************)
(* LibFaceDetection._call_imp.  The inference, PriorBox.decode and         *)
(* cv2.dnn.NMSBoxes are external: dets is the array of rows                *)
(* [x1, y1, w, h, eyes, score] that the suppression keeps.                 *)
(***************************************************************************)
LibRow2Detection(row) ==
    DetectionEyes(<<row.x1, row.y1, row.x1 + row.w, row.y1 + row.h>>,
                  Conf(row.score), row.eyes)

\* PriorBox(input_shape, output_shape): the anchors of one frame size
\* (libfacedetection_priorbox.py is not part of the sources at hand); serial
\* is the rank of the object among those the detector constructed
PriorBox(input_shape, output_shape, serial) ==
    [input_shape |-> input_shape, output_shape |-> output_shape, id |-> serial]

\* self.dprior[key] = value
DictSet(dict, key, value) ==
    [k \in DOMAIN dict \cup {key} |-> IF k = key THEN value ELSE dict[k]]

\* (the anchors built anew at every call)
LibPriorsRebuild(d, w, h) ==
    [d EXCEPT !.dprior = DictSet(@, <<w, h>>, PriorBox(<<w, h>>, <<w, h>>, d.npriorbox + 1)),
              !.npriorbox = @ + 1]

\* if (w, h) not in self.dprior: self.dprior[(w, h)] = PriorBox(...)
LibPriors(d, w, h) ==
    IF <<w, h>> \notin DOMAIN d.dprior
    THEN [d EXCEPT !.dprior = DictSet(@, <<w, h>>, PriorBox(<<w, h>>, <<w, h>>, d.npriorbox + 1)),
                   !.npriorbox = @ + 1]
    ELSE d

LibCallImp(d, frame, dets) ==
    [ret |-> MapSeq(dets, LibRow2Detection), err |-> "",
     det |-> LibPriors(d, FrameW(frame), FrameH(frame))]

(***************************************************************************)
(* IdentityFaceDetector._call_imp                                          *)
(***************************************************************************)
IdentityCallImp(d, frame) ==
    [ret |-> <<PlainTuple(<<0, 0, FrameW(frame) * Q, FrameH(frame) * Q>>, NanConf)>>,
     err |-> "", det |-> d]

(***************************************************************************)
(* PrecomputedDetector._call_imp.  A queue entry is one box (a tuple) or a *)
(* list of boxes: [tuple |-> BOOLEAN, boxes |-> sequence of boxes].        *)
(***************************************************************************)
TupleEntry(b) == [tuple |-> TRUE, boxes |-> <<b>>]
ListEntry(bs) == [tuple |-> FALSE, boxes |-> bs]

PrecomputedBox2Detection(e) == Detection(e, NoneConf)

\* (self.lbbox.pop() instead of pop(0))
PrecomputedCallImpLifo(d, frame) ==
    IF Len(d.lbbox) = 0
    THEN [ret |-> <<>>, err |-> "", det |-> d]
    ELSE [ret |-> MapSeq(d.lbbox[Len(d.lbbox)].boxes, PrecomputedBox2Detection),
          err |-> "", det |-> [d EXCEPT !.lbbox = SubSeq(@, 1, Len(@) - 1)]]

PrecomputedCallImp(d, frame) ==
    IF Len(d.lbbox) = 0
    THEN [ret |-> <<>>, err |-> "", det |-> d]
    ELSE [ret |-> MapSeq(Head(d.lbbox).boxes, PrecomputedBox2Detection),
          err |-> "", det |-> [d EXCEPT !.lbbox = Tail(@)]]

\* self._call_imp(frame): dispatch on the concrete class
CallImp(d, frame, nn) ==
    CASE d.kind = "OcvCnn" -> OcvCallImp(d, frame, nn)
      [] d.kind = "LibFace" -> LibCallImp(d, frame, nn)
      [] d.kind = "Identity" -> IdentityCallImp(d, frame)
      [] d.kind = "Precomputed" -> PrecomputedCallImp(d, frame)

(***************************************************************************)
(* FaceDetector.__call__                                                   *)
(***************************************************************************)
\* max(self.min_size_px, self.min_size_prct * min_frame_dim), in 1/Q pixel
MinFaceSize(d, frame) ==
    LET min_frame_dim == Min(FrameH(frame), FrameW(frame))
    IN  Max(d.min_size_px * Q, d.min_size_prct * min_frame_dim)

\* (a strict comparison in the size filter)
BigEnoughStrict(e, min_face_size) == max_dim_len(e.bbox) > min_face_size

\* e.bbox.max_dim_len >= min_face_size
BigEnough(e, min_face_size) == max_dim_len(e.bbox) >= min_face_size

\* [e for e in lret if e.bbox.max_dim_len >= min_face_size]
SizeFilter(lret, min_face_size) ==
    IF min_face_size > 0
    THEN SelectSeq(lret, LAMBDA e : BigEnough(e, min_face_size))
    ELSE lret

\* (the two offsets taken in the order _blackpadd returns them)
DepaddSwapped(lret, xoffset, yoffset) ==
    MapSeq(lret, LAMBDA e : ReplaceBbox(e, transpose(e.bbox, -(yoffset * Q), -(xoffset * Q))))

\* [e._replace(bbox=e.bbox.transpose(-xoffset, -yoffset)) for e in lret]
Depadd(lret, xoffset, yoffset) ==
    MapSeq(lret, LAMBDA e : ReplaceBbox(e, transpose(e.bbox, -(xoffset * Q), -(yoffset * Q))))

\* True when some element of lret is no Detection: e.bbox raises AttributeError
NoBboxAttr(lret) == \E i \in DOMAIN lret : lret[i].type = "tuple"

\* the whole call: what _call_imp was given (tmpframe) and returned (raw),
\* the offsets, the result (out) or the exception (err), and the detector
\* object after the call
FaceDetectorCall(d, frame, nn) ==
    IF ~d.hasattrs
    THEN [raw |-> <<>>, out |-> <<>>, err |-> "AttributeError", det |-> d,
          tmpframe |-> frame, xoffset |-> 0, yoffset |-> 0]
    ELSE
    LET padd == d.padd_prct # 0
        p == _blackpadd(frame, d.padd_prct)
        tmpframe == IF padd THEN p.ret ELSE frame
        xoffset == IF padd THEN p.xoffset ELSE 0
        yoffset == IF padd THEN p.yoffset ELSE 0
        imp == CallImp(d, tmpframe, nn)
        min_face_size == MinFaceSize(d, frame)
    IN  IF imp.err # ""
        THEN [raw |-> <<>>, out |-> <<>>, err |-> imp.err, det |-> imp.det,
              tmpframe |-> tmpframe, xoffset |-> xoffset, yoffset |-> yoffset]
        ELSE IF (min_face_size > 0 \/ padd) /\ NoBboxAttr(imp.ret)
        THEN [raw |-> imp.ret, out |-> <<>>, err |-> "AttributeError", det |-> imp.det,
              tmpframe |-> tmpframe, xoffset |-> xoffset, yoffset |-> yoffset]
        ELSE LET filtered == SizeFilter(imp.ret, min_face_size)
                 lret == IF padd THEN Depadd(filtered, xoffset, yoffset) ELSE filtered
             IN  [raw |-> imp.ret, out |-> lret, err |-> "", det |-> imp.det,
                  tmpframe |-> tmpframe, xoffset |-> xoffset, yoffset |-> yoffset]

(***************************************************************************)
(* FaceDetector.most_central_face                                          *)
(***************************************************************************)
\* _sqdist(p1, p2)
_sqdist(p1, p2) == (p1[1] - p2[1]) * (p1[1] - p2[1]) + (p1[2] - p2[2]) * (p1[2] - p2[2])

\* (the last minimum instead of the first)
ArgMinLast(l) ==
    CHOOSE i \in DOMAIN l :
        /\ \A j \in DOMAIN l : l[i] <= l[j]
        /\ \A j \in DOMAIN l : j > i => l[j] > l[i]

\* np.argmin(l): the index of the first minimum
ArgMin(l) ==
    CHOOSE i \in DOMAIN l :
        /\ \A j \in DOMAIN l : l[i] <= l[j]
        /\ \A j \in DOMAIN l : j < i => l[j] > l[i]

\* twice (frame.shape[1] / 2, frame.shape[0] / 2), in 1/Q pixel
FrameCenter2(frame) == <<FrameW(frame) * Q, FrameH(frame) * Q>>

\* the whole method: the inner detect call r and the selection sel
\* (<<>> is None, <<f>> the face returned)
most_central_face(d, frame, nn) ==
    LET r == FaceDetectorCall(d, frame, nn)
        frame_center2 == FrameCenter2(frame)
        faces == SelectSeq(r.out, LAMBDA f : contains2(f.bbox, frame_center2))
        ldists == MapSeq(faces, LAMBDA f : _sqdist(center2(f.bbox), frame_center2))
    IN  IF r.err # "" THEN [r |-> r, sel |-> <<>>]
        ELSE IF Len(faces) = 0 THEN [r |-> r, sel |-> <<>>]
        ELSE [r |-> r, sel |-> <<faces[ArgMin(ldists)]>>]

(***************************************************************************)
(* OcvCnnFacedetector.get_closest_face                                     *)
(***************************************************************************)
\* a / b > c / d for the ratios a = <<a1, a2>>, c = <<c1, c2>>
RatioGreater(a, c) == a[1] * c[2] > c[1] * a[2]

\* np.argmax(l): the index of the first maximum of a list of ratios
ArgMax(l) ==
    CHOOSE i \in DOMAIN l :
        /\ \A j \in DOMAIN l : ~RatioGreater(l[j], l[i])
        /\ \A j \in DOMAIN l : j < i => RatioGreater(l[i], l[j])

\* f = lambda x: x.square if squarify else lambda x: x.  The result is kept
\* doubled in both cases, so that the two branches share a unit.
SquarifyF2(squarify, x) == IF squarify THEN square2(x) ELSE double(x)

\* (rejecting an IoU equal to min_iou)
BelowMinIouOrEqual(v, min_iou) == v[1] * Q <= min_iou * v[2]

\* liou[am] < min_iou, min_iou = min_iou / Q
BelowMinIou(v, min_iou) == v[1] * Q < min_iou * v[2]

\* the whole method.  ref_bbox = f(ref_bbox) is squared a first time, and
\* f(ref_bbox) a second time in the list comprehension: the reference is in
\* quarter units there, and each f(detection.bbox) is doubled to match.
get_closest_face(d, frame, nn, ref_bbox, min_iou, squarify) ==
    LET ref1 == SquarifyF2(squarify, ref_bbox)
        r == FaceDetectorCall(d, frame, nn)
        lfaces == r.out
        liou == MapSeq(lfaces, LAMBDA detection :
                    iou(SquarifyF2(squarify, ref1),
                        double(SquarifyF2(squarify, detection.bbox))))
    IN  IF r.err # "" THEN [r |-> r, sel |-> <<>>]
        ELSE IF Len(lfaces) = 0 THEN [r |-> r, sel |-> <<>>]
        ELSE IF BelowMinIou(liou[ArgMax(liou)], min_iou) THEN [r |-> r, sel |-> <<>>]
        ELSE [r |-> r, sel |-> <<lfaces[ArgMax(liou)]>>]

(***************************************************************************)
(* Inputs                                                                  *)
(***************************************************************************)
\* normalized boxes the network may answer: well-formed small and large
\* ones, a degenerate one and one outside the unit square
NNBoxes ==
    {<<0, 0, 1, 1>>, <<0, 0, Q, Q>>, <<-1, 1, Q - 1, Q + 1>>,
     <<1, 1, 1, Q>>, <<Q, 0, Q + 1, 1>>, <<0, -1, 1, 0>>}

NNConfs == {0, Q \div 2, Q}

NNCandidates == [conf : NNConfs, box : NNBoxes]

\* network outputs, sorted by descending confidence as the model gives them
NNOutputs == {s \in SeqUpTo(NNCandidates, MaxDet) : SortedByConf(s)}

\* rows kept by the suppression of the ONNX detector
LibRows ==
    {[x1 |-> x, y1 |-> 0, w |-> wh[1], h |-> wh[2],
      eyes |-> <<x, 0, x + wh[1], 0>>, score |-> Q] :
        x \in {0, Q}, wh \in {<<1, 2>>, <<Q, 2 * Q>>, <<3 * Q, Q>>}}

LibOutputs == SeqUpTo(LibRows, MaxDet)

\* frame shapes handed to the ONNX detector
LibFrames == {<<1, 2>>, <<MaxDim, MaxDim>>}

\* boxes and queue entries of the precomputed detector
PreBoxes == {<<0, 0, Q, Q>>, <<Q, 0, 3 * Q, 2 * Q>>}

PreEntries ==
    {TupleEntry(b) : b \in PreBoxes}
        \cup {ListEntry(<<>>), ListEntry(<<<<Q, 0, 3 * Q, 2 * Q>>>>),
              ListEntry(<<<<0, 0, Q, Q>>, <<Q, 0, 3 * Q, 2 * Q>>>>)}

PreQueues == SeqUpTo(PreEntries, MaxQueue)

MinSizesPx == {0, 1}
MinSizesPrct == {0, Q \div 2}
PaddPrcts == {0, Q \div 2}

OcvDetectors ==
    {OcvCnnFacedetector(Q \div 2, px, prct, padd) :
        px \in MinSizesPx, prct \in MinSizesPrct, padd \in PaddPrcts}

LibDetectors ==
    {LibFaceDetection(Q, px, 0, padd) : px \in MinSizesPx, padd \in PaddPrcts}

PreDetectors == {PrecomputedDetector(q) : q \in PreQueues}

\* what the inference may hand to _call_imp, per concrete class
Inferences(d) ==
    CASE d.kind = "OcvCnn" -> NNOutputs
      [] d.kind = "LibFace" -> LibOutputs
      [] OTHER -> {<<>>}

FramesFor(d) == IF d.kind = "LibFace" THEN LibFrames ELSE Frames

NoCall ==
    [op |-> "none", raw |-> <<>>, out |-> <<>>, err |-> "",
     tmpframe |-> <<1, 1>>, xoffset |-> 0, yoffset |-> 0, sel |-> <<>>]

\* the record of a call whose inner detect call was r
CallRecord(op, r, sel) ==
    [op |-> op, raw |-> r.raw, out |-> r.out, err |-> r.err,
     tmpframe |-> r.tmpframe, xoffset |-> r.xoffset, yoffset |-> r.yoffset,
     sel |-> sel]

NoArgs == [ref_bbox |-> <<0, 0, 0, 0>>, min_iou |-> 0, squarify |-> FALSE]

NoVideo == [pc |-> "none"]

\* the frames handed to a LibFaceDetection's _call_imp once the detect call
\* r was made on d
HandedAfter(d, r) == IF d.kind = "LibFace" THEN handed \cup {r.tmpframe} ELSE handed

\* a detect call pops the precomputed queue: calls are counted on it, and
\* stop ExtraCalls calls after the queue ran empty
CountCall ==
    /\ det.kind = "Precomputed" => ncalls < Len(given) + ExtraCalls
    /\ ncalls' = IF det.kind = "Precomputed" THEN ncalls + 1 ELSE ncalls

(***************************************************************************)
(* Spec: a detector object, a frame with the inference's answer on it, and *)
(* calls of detect and most_central_face                                   *)
(***************************************************************************)
Init ==
    /\ det \in OcvDetectors \cup LibDetectors \cup PreDetectors \cup {IdentityFaceDetector}
    /\ shape \in FramesFor(det)
    /\ infer \in Inferences(det)
    /\ given = det.lbbox
    /\ ncalls = 0
    /\ args = NoArgs
    /\ call = NoCall
    /\ vid = NoVideo
    /\ handed = {}

\* detector(frame)
Detect ==
    LET r == FaceDetectorCall(det, shape, infer)
    IN  /\ CountCall
        /\ det' = r.det
        /\ call' = CallRecord("detect", r, <<>>)
        /\ handed' = HandedAfter(det, r)
        /\ UNCHANGED <<shape, infer, given, args, vid>>

\* detector.most_central_face(frame)
MostCentral ==
    LET m == most_central_face(det, shape, infer)
    IN  /\ CountCall
        /\ det' = m.r.det
        /\ call' = CallRecord("most_central_face", m.r, m.sel)
        /\ handed' = HandedAfter(det, m.r)
        /\ UNCHANGED <<shape, infer, given, args, vid>>

Next == Detect \/ MostCentral

Spec == Init /\ [][Next]_vars

(***************************************************************************)
(* SpecClosest: an OpenCV CNN detector, a frame, the network's answer, and *)
(* get_closest_face calls with a reference box                             *)
(***************************************************************************)
RefBoxes == {<<0, 0, 2 * Q, 2 * Q>>, <<0, 0, 2 * Q, Q>>, <<1, 0, Q, Q + 2>>}

MinIous == {1, Q \div 2, Q}

ClosestDetectors ==
    {OcvCnnFacedetector(Q \div 2, 0, 0, padd) : padd \in PaddPrcts}

ClosestFrames == {<<2, 2>>, <<1, 2>>}

\* answers of the network made of confident, well-formed boxes
ClosestCandidates ==
    [conf : {Q}, box : {<<0, 0, Q, Q>>, <<0, 0, Q, Q \div 2>>, <<1, 0, Q, 1>>,
                        <<-1, 1, Q - 1, Q + 1>>}]

ClosestInferences == SeqUpTo(ClosestCandidates, MaxDet)

InitClosest ==
    /\ det \in ClosestDetectors
    /\ shape \in ClosestFrames
    /\ infer \in ClosestInferences
    /\ given = <<>>
    /\ ncalls = 0
    /\ args \in [ref_bbox : RefBoxes, min_iou : MinIous, squarify : BOOLEAN]
    /\ call = NoCall
    /\ vid = NoVideo
    /\ handed = {}

\* detector.get_closest_face(frame, ref_bbox, min_iou, squarify)
Closest ==
    LET g == get_closest_face(det, shape, infer, args.ref_bbox, args.min_iou, args.squarify)
    IN  /\ det' = g.r.det
        /\ call' = CallRecord("get_closest_face", g.r, g.sel)
        /\ UNCHANGED <<shape, infer, given, ncalls, args, vid, handed>>

NextClosest == Closest

SpecClosest == InitClosest /\ [][NextClosest]_vars

(***************************************************************************)
(* Properties of detect                                                    *)
(***************************************************************************)
\* some call went through detect and detect returned
Returned == call.op # "none" /\ call.err = ""

\* the longer side of d's box reaches both min_size_px pixels and
\* min_size_prct of the shorter side of the frame passed to detect
ReachesThreshold(d) ==
    LET side == max_dim_len(d.bbox)
    IN  /\ side >= Q * det.min_size_px
        /\ \A m \in {FrameH(shape), FrameW(shape)} :
               (\A n \in {FrameH(shape), FrameW(shape)} : m <= n)
                   => side >= det.min_size_prct * m

\* d with its box moved back into the coordinates of the padded frame
Repadded(d) ==
    ReplaceBbox(d, transpose(d.bbox, call.xoffset * Q, call.yoffset * Q))

\* C1: detect returns exactly the raw detections whose box's longer side is
\* at least max(min_size_px, min_size_prct x min(frame height, frame width))
\* of the frame passed to detect, in their original order, and never a
\* detection with a longer side below that threshold.
C1_SizeFilter ==
    Returned =>
        /\ MapSeq(call.out, Repadded) = SelectSeq(call.raw, ReachesThreshold)
        /\ \A i \in DOMAIN call.out : ReachesThreshold(call.out[i])

\* a call that dropped the first of two raw detections and kept the second
C1_Witness ==
    /\ Returned
    /\ Len(call.raw) = 2 /\ Len(call.out) = 1
    /\ ~ReachesThreshold(call.raw[1])
    /\ Repadded(call.out[1]) = call.raw[2]

\* C2: with padd_prct > 0 the frame is padded by xoffset = int(width x
\* padd_prct) columns and yoffset = int(height x padd_prct) rows on each
\* side, and every returned box is a raw box of the padded frame shifted by
\* (-xoffset, -yoffset), its width and height unchanged; shifting it back
\* by (xoffset, yoffset) gives the raw box again.
C2_Depadding ==
    (Returned /\ det.padd_prct > 0) =>
        /\ call.xoffset * Q <= FrameW(shape) * det.padd_prct
        /\ FrameW(shape) * det.padd_prct < (call.xoffset + 1) * Q
        /\ call.yoffset * Q <= FrameH(shape) * det.padd_prct
        /\ FrameH(shape) * det.padd_prct < (call.yoffset + 1) * Q
        /\ call.tmpframe = <<FrameH(shape) + 2 * call.yoffset,
                             FrameW(shape) + 2 * call.xoffset>>
        /\ \A i \in DOMAIN call.out :
             \E j \in DOMAIN call.raw :
                LET B == call.out[i].bbox
                    R == call.raw[j].bbox
                IN  /\ R = <<B[1] + call.xoffset * Q, B[2] + call.yoffset * Q,
                             B[3] + call.xoffset * Q, B[4] + call.yoffset * Q>>
                    /\ RectW(B) = RectW(R) /\ RectH(B) = RectH(R)
                    /\ transpose(transpose(B, call.xoffset * Q, call.yoffset * Q),
                                 -(call.xoffset * Q), -(call.yoffset * Q)) = B
                    /\ call.out[i] = ReplaceBbox(call.raw[j], B)

\* a padded call with different offsets in x and y that returned a box
C2_Witness ==
    /\ Returned /\ det.padd_prct > 0
    /\ call.xoffset > 0 /\ call.yoffset = 0
    /\ Len(call.out) > 0
    /\ call.out[1].bbox # call.raw[1].bbox

\* the candidates a scan of the whole list accepts, scaled to the pixels
\* of the frame given to the network
Accepted(c) ==
    /\ c.conf >= det.minconf
    /\ c.box[1] < c.box[3] /\ c.box[2] < c.box[4]
    /\ ~(c.box[3] <= 0 \/ c.box[1] >= Q \/ c.box[4] <= 0 \/ c.box[2] >= Q)

Scaled(c) ==
    Detection(<<c.box[1] * call.tmpframe[2], c.box[2] * call.tmpframe[1],
                c.box[3] * call.tmpframe[2], c.box[4] * call.tmpframe[1]>>,
              Conf(c.conf))

\* C5: on candidates sorted by descending confidence the OpenCV CNN decode
\* returns, in input order, exactly the candidates with confidence >=
\* minconf whose normalized box is non-degenerate and not entirely outside
\* the unit square, scaled by the frame's width and height: the early exit
\* drops nothing a full scan accepts.
C5_OcvDecode ==
    (Returned /\ det.kind = "OcvCnn") =>
        call.raw = MapSeq(SelectSeq(infer, Accepted), Scaled)

\* a noisy first candidate was skipped and the second one accepted
C5_Witness ==
    /\ Returned /\ det.kind = "OcvCnn"
    /\ Len(infer) = 2 /\ Len(call.raw) = 1
    /\ infer[1].conf >= det.minconf /\ ~Accepted(infer[1])
    /\ Accepted(infer[2])

\* the detections of one queue entry
EntryDetections(entry) ==
    [i \in 1..Len(entry.boxes) |-> Detection(entry.boxes[i], NoneConf)]

\* C7: the k-th detect call on a PrecomputedDetector built from n entries
\* returns the boxes of the k-th entry (one detection for a tuple entry,
\* one per box of a list entry) and removes exactly that entry; every call
\* after the n-th returns an empty sequence and leaves the queue empty.
C7_PrecomputedFifo ==
    det.kind = "Precomputed" =>
        /\ det.lbbox = SubSeq(given, Min(ncalls, Len(given)) + 1, Len(given))
        /\ ncalls > 0 =>
              /\ Returned
              /\ ncalls <= Len(given) =>
                    /\ call.out = EntryDetections(given[ncalls])
                    /\ given[ncalls].tuple => Len(call.out) = 1
              /\ ncalls > Len(given) => (call.out = <<>> /\ det.lbbox = <<>>)

\* the second call returned the two boxes of a list entry
C7_Witness ==
    /\ det.kind = "Precomputed" /\ Len(given) = 2 /\ ncalls = 2
    /\ given[1].tuple /\ ~given[2].tuple
    /\ Len(call.out) = 2

\* calls went on after the queue ran empty
C7_WitnessExhausted ==
    /\ det.kind = "Precomputed" /\ Len(given) = 2 /\ ncalls = Len(given) + 2

\* C8: detect on an IdentityFaceDetector returns, without error, exactly
\* one detection whose box is the whole frame (0, 0, w, h) and whose
\* confidence is undefined.
C8_IdentityWholeFrame ==
    (det.kind = "Identity" /\ call.op = "detect") =>
        /\ call.err = ""
        /\ Len(call.out) = 1
        /\ call.out[1].bbox = <<0, 0, FrameW(shape) * Q, FrameH(shape) * Q>>
        /\ call.out[1].detect_conf.tag = "nan"

(***************************************************************************)
(* Properties of the selection policies                                    *)
(***************************************************************************)
\* the frame center (width/2, height/2) lies in box b: both in 1/Q pixel,
\* the comparison doubled to stay in the integers
HoldsFrameCenter(b) ==
    /\ 2 * b[1] <= FrameW(shape) * Q /\ FrameW(shape) * Q <= 2 * b[3]
    /\ 2 * b[2] <= FrameH(shape) * Q /\ FrameH(shape) * Q <= 2 * b[4]

\* four times the squared distance from the center of b to the frame center
CenterDist4(b) ==
    (b[1] + b[3] - FrameW(shape) * Q) * (b[1] + b[3] - FrameW(shape) * Q)
        + (b[2] + b[4] - FrameH(shape) * Q) * (b[2] + b[4] - FrameH(shape) * Q)

\* C3: most_central_face considers only the detections whose box contains
\* the frame center, returns among them the one whose box center is nearest
\* to the frame center (squared Euclidean distance), the first encountered
\* on ties, whatever the confidence or size of the others, and returns None
\* without raising when no detection contains the center.
C3_MostCentral ==
    (call.op = "most_central_face" /\ call.err = "") =>
        LET cand == {i \in DOMAIN call.out : HoldsFrameCenter(call.out[i].bbox)}
        IN  /\ cand = {} <=> call.sel = <<>>
            /\ cand # {} =>
                 /\ Len(call.sel) = 1
                 /\ \E k \in cand :
                      /\ call.sel[1] = call.out[k]
                      /\ \A j \in cand :
                           /\ CenterDist4(call.out[k].bbox) <= CenterDist4(call.out[j].bbox)
                           /\ j < k => CenterDist4(call.out[j].bbox)
                                           > CenterDist4(call.out[k].bbox)

\* two faces hold the center at the same distance and the first is returned,
\* although it is the smaller or the less confident one
C3_Witness ==
    /\ call.op = "most_central_face" /\ call.err = ""
    /\ Len(call.out) = 2 /\ Len(call.sel) = 1
    /\ HoldsFrameCenter(call.out[1].bbox) /\ HoldsFrameCenter(call.out[2].bbox)
    /\ CenterDist4(call.out[1].bbox) = CenterDist4(call.out[2].bbox)
    /\ call.out[1] # call.out[2]
    /\ call.sel[1] = call.out[1]

\* detections were returned, none holds the center, and the answer is None
C3_WitnessNone ==
    /\ call.op = "most_central_face" /\ call.err = ""
    /\ Len(call.out) > 0 /\ call.sel = <<>>

\* the IoU (a ratio <<intersection, union>>) of the reference box and box
\* b, both squared first when squarify is set
RefIoU(b) ==
    IF args.squarify
    THEN iou(square2(args.ref_bbox), square2(b))
    ELSE iou(args.ref_bbox, b)

\* the ratio v is at least min_iou / Q
AtLeastMinIou(v) == v[1] * Q >= args.min_iou * v[2]

\* C4: get_closest_face computes the IoU between the reference box and
\* every detected box (both squared first when squarify is set), selects
\* the detection of maximum IoU and returns it, with its original box, if
\* and only if that IoU >= min_iou; otherwise, and when there is no
\* detection, it returns None and does not raise.
C4_ClosestFace ==
    call.op = "get_closest_face" =>
        /\ call.err = ""
        /\ call.sel # <<>> <=>
              \E i \in DOMAIN call.out : AtLeastMinIou(RefIoU(call.out[i].bbox))
        /\ call.sel # <<>> =>
              /\ Len(call.sel) = 1
              /\ \E k \in DOMAIN call.out :
                   /\ call.sel[1] = call.out[k]
                   /\ \A j \in DOMAIN call.out :
                        ~RatioGreater(RefIoU(call.out[j].bbox), RefIoU(call.out[k].bbox))

\* with squarify set, the second of two detections has the larger IoU, which
\* equals min_iou, and is returned with its own, non-square box
C4_Witness ==
    /\ call.op = "get_closest_face" /\ args.squarify
    /\ Len(call.out) = 2 /\ Len(call.sel) = 1
    /\ call.sel[1] = call.out[2]
    /\ RatioGreater(RefIoU(call.out[2].bbox), RefIoU(call.out[1].bbox))
    /\ RefIoU(call.out[2].bbox)[1] * Q = args.min_iou * RefIoU(call.out[2].bbox)[2]
    /\ RectW(call.sel[1].bbox) # RectH(call.sel[1].bbox)

\* detections were found, the best IoU is below min_iou, the answer is None
C4_WitnessNone ==
    /\ call.op = "get_closest_face"
    /\ Len(call.out) > 0 /\ call.sel = <<>>

(***************************************************************************)
(* face_utils.intersection_over_union.  An argument is a tuple of floats   *)
(* (coordinates in 1/Q pixel) or a dlib.rectangle (whole pixels):          *)
(* [rect |-> BOOLEAN, c |-> <<left, top, right, bottom>>].                 *)
(***************************************************************************)
\* np.round of c/Q: to the nearest integer, a half to the even neighbour
NpRound(c) ==
    LET f == c \div Q
        r == c % Q
    IN  IF 2 * r < Q THEN f
        ELSE IF 2 * r > Q THEN f + 1
        ELSE IF f % 2 = 0 THEN f ELSE f + 1

\* tuple2rect(t): dlib.rectangle(*[int(x) for x in np.round(t)])
tuple2rect(t) == <<NpRound(t[1]), NpRound(t[2]), NpRound(t[3]), NpRound(t[4])>>

\* dlib.rectangle: is_empty, area (both borders belong to it), intersect
DlibIsEmpty(r) == r[2] > r[4] \/ r[1] > r[3]

DlibArea(r) == IF DlibIsEmpty(r) THEN 0 ELSE (r[3] - r[1] + 1) * (r[4] - r[2] + 1)

DlibIntersect(a, b) ==
    <<Max(a[1], b[1]), Max(a[2], b[2]), Min(a[3], b[3]), Min(a[4], b[4])>>

\* the whole function: the ratio <<inter, union>>, or the exception
intersection_over_union(x, y) ==
    LET xr == IF ~x.rect THEN tuple2rect(x.c) ELSE x.c
        yr == IF ~y.rect THEN tuple2rect(y.c) ELSE y.c
        inter == DlibArea(DlibIntersect(xr, yr))
        union == DlibArea(xr) + DlibArea(yr) - inter
    IN  IF union = 0
        THEN [val |-> <<0, 1>>, err |-> "ZeroDivisionError"]
        ELSE [val |-> <<inter, union>>, err |-> ""]

\* well-formed boxes: tuples with whole and half coordinates, rectangles
IouXs == {0, Q + Q \div 2, 2 * Q, 2 * Q + Q \div 2, 4 * Q}

IouTuples ==
    {[rect |-> FALSE, c |-> <<x1, y[1], x2, y[2]>>] :
        x1 \in IouXs, x2 \in IouXs, y \in {<<0, 2 * Q>>, <<Q, 3 * Q>>}}

IouRectangles ==
    {[rect |-> TRUE, c |-> c] : c \in {<<0, 0, 1, 1>>, <<2, 0, 4, 2>>, <<3, 3, 3, 3>>}}

IouBoxes == {b \in IouTuples : b.c[1] < b.c[3]} \cup IouRectangles

NoIouCall == [op |-> "none", val |-> <<0, 1>>, err |-> ""]

InitIou ==
    /\ args \in [x : IouBoxes, y : IouBoxes]
    /\ call = NoIouCall
    /\ det = IdentityFaceDetector
    /\ shape = <<1, 1>>
    /\ infer = <<>>
    /\ given = <<>>
    /\ ncalls = 0
    /\ vid = NoVideo
    /\ handed = {}

\* intersection_over_union(x, y)
Iou ==
    LET r == intersection_over_union(args.x, args.y)
    IN  /\ call' = [op |-> "iou", val |-> r.val, err |-> r.err]
        /\ UNCHANGED <<det, shape, infer, given, ncalls, args, vid, handed>>

NextIou == Iou

SpecIou == InitIou /\ [][NextIou]_vars

\* the box of an argument as real coordinates, in 1/Q pixel
RealBox(b) == IF b.rect THEN <<b.c[1] * Q, b.c[2] * Q, b.c[3] * Q, b.c[4] * Q>> ELSE b.c

\* two boxes with no common point
Disjoint(a, b) ==
    \/ RealBox(a)[3] < RealBox(b)[1] \/ RealBox(b)[3] < RealBox(a)[1]
    \/ RealBox(a)[4] < RealBox(b)[2] \/ RealBox(b)[4] < RealBox(a)[2]

\* C6: for all boxes A and B, intersection_over_union returns a value,
\* iou(A, B) = iou(B, A), iou(A, A) = 1, and iou(A, B) = 0 when A and B
\* are disjoint.
C6_IouLaws ==
    call.op = "iou" =>
        /\ call.err = ""
        /\ LET back == intersection_over_union(args.y, args.x)
           IN  back.err = "" /\ back.val[1] * call.val[2] = call.val[1] * back.val[2]
        /\ args.x = args.y => call.val[1] = call.val[2]
        /\ Disjoint(args.x, args.y) => call.val[1] = 0

(***************************************************************************)
(* opencv_utils.video_iterator, a generator.  The source is a file of      *)
(* nframes frames, valid or not; cv2.VideoCapture is external: read()      *)
(* succeeds while the position is below nframes and then advances it,      *)
(* set() moves the position, release() gives the handle back.              *)
(***************************************************************************)
NoBound == [some |-> FALSE, v |-> 0]
Bound(v) == [some |-> TRUE, v |-> v]

\* int(b * fps // 1000) for a bound b given in milliseconds
Ms2Frame(b, fps) == IF b.some THEN Bound((b.v * fps) \div 1000) ELSE b

\* (the frame at position stop left out)
RECURSIVE VideoLoopStopExclusive(_, _, _, _)
VideoLoopStopExclusive(pos, stop, nframes, subsamp_coeff) ==
    IF stop.some /\ pos >= stop.v
    THEN [yield |-> FALSE, pos |-> pos, index |-> 0, frame |-> 0]
    ELSE IF pos >= nframes
    THEN [yield |-> FALSE, pos |-> pos, index |-> 0, frame |-> 0]
    ELSE IF (pos + 1) % subsamp_coeff # 0
         THEN VideoLoopStopExclusive(pos + 1, stop, nframes, subsamp_coeff)
    ELSE [yield |-> TRUE, pos |-> pos + 1, index |-> (pos + 1) - 1, frame |-> pos]

\* the while loop from position pos on, up to the next yield or to the
\* end of the loop: [yield, pos, index, frame].  read() hands back the frame
\* at position pos, named here by its rank in the source, and moves the
\* position to pos + 1; the index yielded is the position read after that,
\* minus one.
RECURSIVE VideoLoop(_, _, _, _)
VideoLoop(pos, stop, nframes, subsamp_coeff) ==
    IF stop.some /\ pos > stop.v
    THEN [yield |-> FALSE, pos |-> pos, index |-> 0, frame |-> 0]
    ELSE IF pos >= nframes
    THEN [yield |-> FALSE, pos |-> pos, index |-> 0, frame |-> 0]
    ELSE IF (pos + 1) % subsamp_coeff # 0
         THEN VideoLoop(pos + 1, stop, nframes, subsamp_coeff)
    ELSE [yield |-> TRUE, pos |-> pos + 1, index |-> (pos + 1) - 1, frame |-> pos]

\* the generator after the loop ran from pos on: suspended at the yield,
\* or finished after cap.release()
AfterLoop(v, pos, stop) ==
    LET l == VideoLoop(pos, stop, v.nframes, v.subsamp_coeff)
    IN  IF l.yield
        THEN [v EXCEPT !.pc = "suspended", !.pos = l.pos, !.stop = stop,
                       !.yielded = Append(@, <<l.index, l.frame>>)]
        ELSE [v EXCEPT !.pc = "finished", !.pos = l.pos, !.stop = stop,
                       !.opened = FALSE, !.released = TRUE]

\* the first next(): the body from its first line to the first yield
VideoStart(v) ==
    IF ~v.valid THEN [v EXCEPT !.pc = "raised", !.err = "Exception"]
    ELSE IF v.time_unit \notin {"frame", "ms"}
    THEN [v EXCEPT !.pc = "raised", !.err = "NotImplementedError",
                   !.opened = TRUE, !.wasopened = TRUE]
    ELSE LET start == IF v.time_unit = "ms" THEN Ms2Frame(v.start, v.fps) ELSE v.start
             stop == IF v.time_unit = "ms" THEN Ms2Frame(v.stop, v.fps) ELSE v.stop
             pos == IF start.some THEN start.v ELSE 0
         IN  AfterLoop([v EXCEPT !.opened = TRUE, !.wasopened = TRUE], pos, stop)

\* a later next(): the body resumes after the yield
VideoResume(v) == AfterLoop(v, v.pos, v.stop)

\* close() of the generator, or its disposal when the caller abandons it:
\* GeneratorExit is raised at the yield where the body waits and ends it
VideoGeneratorExit(v) == [v EXCEPT !.pc = "closed"]

Bounds(n) == {NoBound} \cup {Bound(v) : v \in 0..n}

Videos ==
    {[pc |-> "created", valid |-> valid, nframes |-> nframes, time_unit |-> time_unit,
      fps |-> fps, start |-> start, stop |-> stop, subsamp_coeff |-> k,
      pos |-> 0, opened |-> FALSE, wasopened |-> FALSE, released |-> FALSE,
      yielded |-> <<>>, err |-> ""] :
        valid \in BOOLEAN, nframes \in 0..MaxFrames, fps \in {500, 1000},
        time_unit \in {"frame", "ms"},
        start \in Bounds(MaxFrames), stop \in Bounds(MaxFrames), k \in 1..MaxSub}

InitVideo ==
    /\ vid \in Videos
    /\ args = NoArgs
    /\ call = NoCall
    /\ det = IdentityFaceDetector
    /\ shape = <<1, 1>>
    /\ infer = <<>>
    /\ given = <<>>
    /\ ncalls = 0
    /\ handed = {}

\* next(it)
VideoNext ==
    /\ vid.pc \in {"created", "suspended"}
    /\ vid' = IF vid.pc = "created" THEN VideoStart(vid) ELSE VideoResume(vid)
    /\ UNCHANGED <<det, shape, infer, given, ncalls, args, call, handed>>

\* it.close(), or the caller drops the iterator
VideoClose ==
    /\ vid.pc \in {"created", "suspended"}
    /\ vid' = VideoGeneratorExit(vid)
    /\ UNCHANGED <<det, shape, infer, given, ncalls, args, call, handed>>

NextVideo == VideoNext \/ VideoClose

SpecVideo == InitVideo /\ [][NextVideo]_vars

\* C9: in every execution of video_iterator that opened the source the
\* capture handle is released, when the iterator runs to exhaustion and
\* when the caller ends the iteration after a yielded frame: once the
\* generator has ended, however it ended, cap.release() has been called.
C9_HandleReleased ==
    (vid.wasopened /\ vid.pc \in {"finished", "closed", "raised"}) => vid.released

(***************************************************************************)
(* Dlib68FaceAlignment.  The landmark model is external: it answers the    *)
(* six landmarks of each eye.                                              *)
(***************************************************************************)
RECURSIVE SumSeq(_)
SumSeq(l) == IF l = <<>> THEN 0 ELSE Head(l) + SumSeq(Tail(l))

\* _extract_eye_center: sum(xs) // 6, sum(ys) // 6
_extract_eye_center(points) ==
    <<SumSeq(MapSeq(points, LAMBDA pt : pt[1])) \div 6,
      SumSeq(MapSeq(points, LAMBDA pt : pt[2])) \div 6>>

\* _angle_between_2_points: the angle whose tangent is a[1] / a[2], and
\* <<1, 0>>, <<-1, 0>> for +90 and -90 degrees
_angle_between_2_points(p1, p2) ==
    IF p1[1] # p2[1] THEN <<p2[2] - p1[2], p2[1] - p1[1]>>
    ELSE IF p2[2] > p1[2] THEN <<1, 0>>
    ELSE <<-1, 0>>

\* detect_eye_centers(frame, bb): the box given to the model and the eyes
detect_eye_centers(frame, bb, landmarks) ==
    [bb |-> IF bb.none THEN <<0, 0, FrameW(frame), FrameH(frame)>> ELSE bb.c,
     left_eye |-> _extract_eye_center(landmarks.left),
     right_eye |-> _extract_eye_center(landmarks.right)]

\* __call__(frame, bb): bb is still the caller's argument after
\* detect_eye_centers, and bb[2] - bb[0] raises TypeError on None
AlignCall(frame, bb, landmarks) ==
    LET e == detect_eye_centers(frame, bb, landmarks)
    IN  IF bb.none
        THEN [op |-> "align", err |-> "TypeError", size |-> <<0, 0>>,
              left_eye |-> e.left_eye, right_eye |-> e.right_eye,
              angle |-> <<0, 1>>, center2 |-> <<0, 0>>]
        ELSE [op |-> "align", err |-> "", size |-> <<bb.c[3] - bb.c[1], bb.c[4] - bb.c[2]>>,
              left_eye |-> e.left_eye, right_eye |-> e.right_eye,
              angle |-> _angle_between_2_points(e.left_eye, e.right_eye),
              center2 |-> <<e.left_eye[1] + e.right_eye[1], e.left_eye[2] + e.right_eye[2]>>]

NoneBox == [none |-> TRUE, c |-> <<0, 0, 0, 0>>]
SomeBox(c) == [none |-> FALSE, c |-> c]

AlignBoxes == {NoneBox} \cup {SomeBox(c) : c \in {<<0, 0, 1, 1>>, <<0, 0, 2, 1>>, <<1, 0, 2, 2>>}}

\* six landmarks around an eye
EyeLandmarks ==
    {<<<<0, 0>>, <<1, 0>>, <<2, 0>>, <<2, 1>>, <<1, 1>>, <<0, 1>>>>,
     <<<<6, 0>>, <<7, 0>>, <<8, 0>>, <<8, 1>>, <<7, 1>>, <<6, 1>>>>,
     <<<<6, 6>>, <<7, 5>>, <<8, 6>>, <<8, 7>>, <<7, 8>>, <<6, 7>>>>,
     <<<<0, 6>>, <<1, 5>>, <<2, 6>>, <<2, 7>>, <<1, 8>>, <<0, 7>>>>}

NoAlignCall ==
    [op |-> "none", err |-> "", size |-> <<0, 0>>, left_eye |-> <<0, 0>>,
     right_eye |-> <<0, 0>>, angle |-> <<0, 1>>, center2 |-> <<0, 0>>]

InitAlign ==
    /\ shape \in Frames
    /\ args \in [bb : AlignBoxes, landmarks : [left : EyeLandmarks, right : EyeLandmarks]]
    /\ call = NoAlignCall
    /\ det = IdentityFaceDetector
    /\ infer = <<>>
    /\ given = <<>>
    /\ ncalls = 0
    /\ vid = NoVideo
    /\ handed = {}

\* aligner(frame, bb)
Align ==
    /\ call' = AlignCall(shape, args.bb, args.landmarks)
    /\ UNCHANGED <<det, shape, infer, given, ncalls, args, vid, handed>>

NextAlign == Align

SpecAlign == InitAlign /\ [][NextAlign]_vars

\* C10: with bb = None the alignment takes the whole frame (0, 0, width,
\* height) as the face box, completes without error and returns a rotated
\* frame of the frame's width and height with both eye centers.
C10_AlignWholeFrame ==
    (call.op = "align" /\ args.bb.none) =>
        /\ call.err = ""
        /\ call.size = <<FrameW(shape), FrameH(shape)>>
        /\ call.left_eye = _extract_eye_center(args.landmarks.left)
        /\ call.right_eye = _extract_eye_center(args.landmarks.right)

\* the frames of the source that the arguments select
SelectedFrames(v) ==
    {i \in 0..(v.nframes - 1) :
        /\ v.start.some => v.start.v <= i
        /\ v.stop.some => i <= v.stop.v
        /\ (i + 1) % v.subsamp_coeff = 0}

\* the frames yielded so far
YieldedFrames(v) == {v.yielded[n][2] : n \in DOMAIN v.yielded}

\* C12: with time_unit = 'frame', the indices come out in strictly
\* increasing order, each yielded frame is paired with its own index, a
\* frame is yielded only if start <= i <= stop (for each bound given) and
\* (i + 1) mod subsamp_coeff = 0, none of these is skipped on the way, and
\* once the iterator is exhausted every one of them was yielded, once.
C12_FrameIndices ==
    (vid.pc # "none" /\ vid.time_unit = "frame") =>
        /\ \A m, n \in DOMAIN vid.yielded : m < n => vid.yielded[m][1] < vid.yielded[n][1]
        /\ \A n \in DOMAIN vid.yielded : vid.yielded[n][1] = vid.yielded[n][2]
        /\ YieldedFrames(vid) \subseteq SelectedFrames(vid)
        /\ \A i \in SelectedFrames(vid), j \in YieldedFrames(vid) :
            i < j => i \in YieldedFrames(vid)
        /\ vid.pc = "finished" => YieldedFrames(vid) = SelectedFrames(vid)

\* an exhausted iterator with both bounds given inside the source, a stride
\* of two, and frames yielded
C12_Witness ==
    /\ vid.pc = "finished"
    /\ vid.time_unit = "frame"
    /\ vid.start.some /\ vid.start.v >= 1
    /\ vid.stop.some /\ vid.stop.v + 1 < vid.nframes
    /\ vid.subsamp_coeff = 2
    /\ Len(vid.yielded) >= 1

(***************************************************************************)
(* SpecLib: one LibFaceDetection object and a sequence of detect calls on  *)
(* frames of several sizes, some of them coming back                       *)
(***************************************************************************)
\* frames of distinct sizes, two of them transposed from one another
LibCacheFrames == {<<1, w>> : w \in 1..MaxDim} \cup {<<MaxDim, 1>>}

\* what the suppression keeps on such a frame: nothing, or one row
LibCacheOutputs == SeqUpTo({row \in LibRows : row.x1 = 0 /\ row.w = Q}, 1)

InitLib ==
    /\ det \in LibDetectors
    /\ shape = <<1, 1>>
    /\ infer = <<>>
    /\ given = <<>>
    /\ ncalls = 0
    /\ args = NoArgs
    /\ call = NoCall
    /\ vid = NoVideo
    /\ handed = {}

\* detector(frame), on the next frame
LibDetect ==
    \E image \in LibCacheFrames, dets \in LibCacheOutputs :
        LET r == FaceDetectorCall(det, image, dets)
        IN  /\ shape' = image
            /\ infer' = dets
            /\ det' = r.det
            /\ call' = CallRecord("detect", r, <<>>)
            /\ handed' = HandedAfter(det, r)
            /\ UNCHANGED <<given, ncalls, args, vid>>

NextLib == LibDetect

SpecLib == InitLib /\ [][NextLib]_vars

\* the key (width, height) of a frame
SizeOf(image) == <<FrameW(image), FrameH(image)>>

\* the distinct sizes of the frames handed to _call_imp so far
HandedSizes == {SizeOf(image) : image \in handed}

\* the cache holds one PriorBox per size handed to _call_imp, built for that
\* size, and the detector built no other PriorBox
OneEntryPerSize ==
    /\ DOMAIN det.dprior = HandedSizes
    /\ det.npriorbox = Cardinality(HandedSizes)
    /\ \A k \in DOMAIN det.dprior :
        /\ det.dprior[k].input_shape = k
        /\ det.dprior[k].output_shape = k
        /\ det.dprior[k].id \in 1..det.npriorbox
    /\ \A k1, k2 \in DOMAIN det.dprior :
        det.dprior[k1].id = det.dprior[k2].id => k1 = k2

\* a call keeps every entry it finds, and builds a PriorBox only for a size
\* met for the first time
BuiltOnFirstCallOnly ==
    LET key == SizeOf(call'.tmpframe)
    IN  /\ \A k \in DOMAIN det.dprior :
            k \in DOMAIN det'.dprior /\ det'.dprior[k] = det.dprior[k]
        /\ IF key \in HandedSizes
           THEN det'.npriorbox = det.npriorbox
           ELSE /\ det'.npriorbox = det.npriorbox + 1
                /\ key \in DOMAIN det'.dprior
                /\ det'.dprior[key].id = det'.npriorbox

\* C11: after any sequence of detect calls on one LibFaceDetection, dprior
\* holds exactly one entry per distinct (width, height) of the frames handed
\* to _call_imp; the PriorBox of a size is constructed once, on the first
\* call with that size, and no later call removes or replaces an entry.
C11_PriorCache == [](det.kind = "LibFace" => OneEntryPerSize) /\ [][BuiltOnFirstCallOnly]_vars

\* several sizes are cached, and the last call came back to a size whose
\* PriorBox is not the latest one built, on a padded frame
C11_Witness ==
    /\ det.kind = "LibFace"
    /\ call.op = "detect"
    /\ call.tmpframe # shape
    /\ Cardinality(handed) >= 2
    /\ SizeOf(call.tmpframe) \in DOMAIN det.dprior
    /\ det.dprior[SizeOf(call.tmpframe)].id < det.npriorbox
====
